---------------------------- MODULE Spec2Model ----------------------------
(***************************************************************************)
(* A model of solver.py: the Cell possibility model, the elimination       *)
(* cascade of Sudoku.eliminate, and the backtracking search of             *)
(* Sudoku.solve.  Python lists and tuples indexed from 0 are functions on  *)
(* 0..k-1, except Cell.possibilities, which is a sequence (possibilities[0]*)
(* is Head).  Sudoku objects live in a heap addressed by object ids, so    *)
(* that copy.deepcopy and aliasing are visible in the model.               *)
(***************************************************************************)
EXTENDS Integers, Sequences, FiniteSets, TLC

VARIABLES
    arr,        \* the raw grid given to Sudoku(arr)
    heap,       \* sequence of Sudoku objects (each the tuple self.cells)
    stack,      \* call stack of Sudoku.solve frames
    estack,     \* call stack of Sudoku.eliminate frames (inside _easy_step)
    flight,     \* value being returned / exception being raised
    results,    \* outcomes of the top-level solve calls made so far
    mode,       \* which harness drives the state: "solve", "cell", "order"
    cell,       \* harness "cell": one Cell object and the last call on it
    prop,       \* harness "order": candidate sets cascaded in any order
    calls       \* the arguments the progress callback was called with

vars == <<arr, heap, stack, estack, flight, results, mode, cell, prop, calls>>

-----------------------------------------------------------------------------
(* Bounds of the explored inputs *)

\* at most this many given values on the cells of SlotCells (sparse grids)
MaxGivens == 3
\* at most this many cells of DenseRegion differ from SolvedGrid (dense grids)
MaxChanged == 3
\* raw integers offered to Cell.__init__ range over -1 .. order^2 + RawSlack
RawSlack == 1

Range(s) == {s[i] : i \in DOMAIN s}

Len0(f) == Cardinality(DOMAIN f)

-----------------------------------------------------------------------------
(* validate_array *)

\* int(sqrt(n))
ISqrt(n) == CHOOSE k \in 0..n : k * k <= n /\ (k + 1) * (k + 1) > n

validate_array(array) ==
    LET n_rows == Len0(array)
        sudoku_order == ISqrt(n_rows)
        valid_numbers == 0..(sudoku_order * sudoku_order)
    IN  [ok |-> /\ sudoku_order * sudoku_order = n_rows
                /\ \A r \in DOMAIN array :
                      /\ Len0(array[r]) = n_rows
                      /\ Range(array[r]) \subseteq valid_numbers,
         sudoku_order |-> sudoku_order]

-----------------------------------------------------------------------------
(* Raw values handed to Cell.__init__: an int, None, or a text *)

IntRaw(n) == [t |-> "int", n |-> n, s |-> <<>>]
NoneRaw == [t |-> "none", n |-> 0, s |-> <<>>]
StrRaw(s) == [t |-> "str", n |-> 0, s |-> s]

Digits == <<"0", "1", "2", "3", "4", "5", "6", "7", "8", "9">>

DigitVal(ch) == (CHOOSE i \in DOMAIN Digits : Digits[i] = ch) - 1

RECURSIVE DigitsVal(_)
DigitsVal(s) ==
    IF s = <<>> THEN 0
    ELSE 10 * DigitsVal(SubSeq(s, 1, Len(s) - 1)) + DigitVal(s[Len(s)])

RECURSIVE LStrip(_)
LStrip(s) == IF s # <<>> /\ Head(s) = " " THEN LStrip(Tail(s)) ELSE s

RECURSIVE RStrip(_)
RStrip(s) ==
    IF s # <<>> /\ s[Len(s)] = " " THEN RStrip(SubSeq(s, 1, Len(s) - 1)) ELSE s

\* int(value) of line 141: [err, n]
PyInt(raw) ==
    IF raw.t = "int" THEN [err |-> "none", n |-> raw.n]
    ELSE IF raw.t = "none" THEN [err |-> "TypeError", n |-> 0]
    ELSE LET body == RStrip(LStrip(raw.s))
             signed == body # <<>> /\ Head(body) \in {"-", "+"}
             digs == IF signed THEN Tail(body) ELSE body
         IN  IF digs # <<>> /\ Range(digs) \subseteq Range(Digits)
             THEN [err |-> "none",
                   n |-> IF signed /\ Head(body) = "-"
                         THEN 0 - DigitsVal(digs) ELSE DigitsVal(digs)]
             ELSE [err |-> "ValueError", n |-> 0]

-----------------------------------------------------------------------------
(* class Cell *)

FullRange(sudoku_order) ==
    [i \in 1..(sudoku_order * sudoku_order) |-> i]

\* Cell.__init__: [err, c]; err is the exception that escapes the constructor
CellInit(row, col, sudoku_order, raw) ==
    LET conv == PyInt(raw)
        value == IF conv.err = "ValueError" THEN 0 ELSE conv.n
    IN  [err |-> IF conv.err = "TypeError" THEN "TypeError" ELSE "none",
         c |-> [possibilities |-> IF value # 0 THEN <<value>>
                                  ELSE FullRange(sudoku_order),
                row |-> row,
                col |-> col,
                subgrid |-> <<row \div sudoku_order, col \div sudoku_order>>]]

\* the value property
CellValue(c) ==
    IF Len(c.possibilities) = 1 THEN c.possibilities[1] ELSE 0

\* the value setter: [clash, c]
CellSetValue(c, val) ==
    IF val \in Range(c.possibilities)
    THEN [clash |-> FALSE, c |-> [c EXCEPT !.possibilities = <<val>>]]
    ELSE [clash |-> TRUE, c |-> c]

\* list.remove(value): drops the first occurrence
ListRemove(s, value) ==
    LET k == CHOOSE i \in DOMAIN s : s[i] = value /\ \A j \in 1..(i - 1) : s[j] # value
    IN  SubSeq(s, 1, k - 1) \o SubSeq(s, k + 1, Len(s))

\* Cell.eliminate gone wrong: a value that is not a candidate is put in
CellEliminateToggle(c, value) ==
    IF Len(c.possibilities) = 1 /\ c.possibilities[1] = value
    THEN [clash |-> TRUE, c |-> c, ret |-> 0]
    ELSE IF value \in Range(c.possibilities)
    THEN LET c2 == [c EXCEPT !.possibilities = ListRemove(c.possibilities, value)]
         IN  [clash |-> FALSE, c |-> c2, ret |-> CellValue(c2)]
    ELSE [clash |-> FALSE,
          c |-> [c EXCEPT !.possibilities = Append(c.possibilities, value)],
          ret |-> 0]

\* Cell.eliminate gone wrong: self.value is returned also when nothing was
\* removed
CellEliminateAlwaysReports(c, value) ==
    IF Len(c.possibilities) = 1 /\ c.possibilities[1] = value
    THEN [clash |-> TRUE, c |-> c, ret |-> 0]
    ELSE IF value \in Range(c.possibilities)
    THEN LET c2 == [c EXCEPT !.possibilities = ListRemove(c.possibilities, value)]
         IN  [clash |-> FALSE, c |-> c2, ret |-> CellValue(c2)]
    ELSE [clash |-> FALSE, c |-> c, ret |-> CellValue(c)]

\* Cell.eliminate gone wrong: the check of lines 182-183 is missing
CellEliminateNoGuard(c, value) ==
    IF value \in Range(c.possibilities)
    THEN LET c2 == [c EXCEPT !.possibilities = ListRemove(c.possibilities, value)]
         IN  [clash |-> FALSE, c |-> c2, ret |-> CellValue(c2)]
    ELSE [clash |-> FALSE, c |-> c, ret |-> 0]

\* Cell.eliminate: [clash, c, ret]
CellEliminate(c, value) ==
    IF Len(c.possibilities) = 1 /\ c.possibilities[1] = value
    THEN [clash |-> TRUE, c |-> c, ret |-> 0]
    ELSE IF value \in Range(c.possibilities)
    THEN LET c2 == [c EXCEPT !.possibilities = ListRemove(c.possibilities, value)]
         IN  [clash |-> FALSE, c |-> c2, ret |-> CellValue(c2)]
    ELSE [clash |-> FALSE, c |-> c, ret |-> 0]

\* Cell.matches gone wrong: blocks are compared by their row of blocks only
CellMatchesBand(c, other) ==
    \/ c.row = other.row
    \/ c.col = other.col
    \/ c.subgrid[1] = other.subgrid[1]

\* Cell.matches
CellMatches(c, other) ==
    \/ c.row = other.row
    \/ c.col = other.col
    \/ c.subgrid = other.subgrid

\* Cell.__eq__
CellEq(c, other) == c.row = other.row /\ c.col = other.col

-----------------------------------------------------------------------------
(* cells_from_arr and the Sudoku queries *)

cells_from_arr(a, order) ==
    LET n == Len0(a)
    IN  [idx \in 0..(n * n - 1) |->
            CellInit(idx \div n, idx % n, order, IntRaw(a[idx \div n][idx % n])).c]

\* Sudoku.is_solved
IsSolved(cells) == \A i \in DOMAIN cells : CellValue(cells[i]) # 0

\* Sudoku.progress, as the pair <<determined cells, all cells>>
Progress(cells) ==
    <<Cardinality({i \in DOMAIN cells : CellValue(cells[i]) # 0}), Len0(cells)>>

\* the list _easy_step takes the minimum of (lines 326-330)
Ambiguous(cells) == {i \in DOMAIN cells : Len(cells[i].possibilities) > 1}

\* min(...) gone wrong: without the key the pairs compare by index first
MinCellNoKey(cells) ==
    CHOOSE i \in Ambiguous(cells) : \A j \in Ambiguous(cells) : i <= j

\* min(..., key=lambda x: (len(x[1]), x[0])) of lines 325-332
MinCell(cells) ==
    CHOOSE i \in Ambiguous(cells) :
        \A j \in Ambiguous(cells) :
            \/ Len(cells[i].possibilities) < Len(cells[j].possibilities)
            \/ /\ Len(cells[i].possibilities) = Len(cells[j].possibilities)
               /\ i <= j

\* copy.deepcopy gone wrong: the same object is handed back
ShallowCopy(h, id) == [heap |-> h, id |-> id]

\* copy.deepcopy(sudoku): a new object with equal contents
DeepCopy(h, id) == [heap |-> Append(h, h[id]), id |-> Len(h) + 1]

-----------------------------------------------------------------------------
(* Input grids *)

ZeroBased(s) == [i \in 0..(Len(s) - 1) |-> s[i + 1]]

Grid(rows) == ZeroBased([i \in DOMAIN rows |-> ZeroBased(rows[i])])

\* the grid g with the cells of DOMAIN f (row-major indices) replaced by f
Override(g, f) ==
    LET n == Len0(g)
    IN  [r \in DOMAIN g |->
            [c \in DOMAIN g[r] |->
                IF (r * n + c) \in DOMAIN f THEN f[r * n + c] ELSE g[r][c]]]

SolvedGrid ==
    Grid(<< <<1, 2, 3, 4>>, <<3, 4, 1, 2>>, <<2, 1, 4, 3>>, <<4, 3, 2, 1>> >>)

EmptyGrid == [r \in 0..3 |-> [c \in 0..3 |-> 0]]

\* the cells (0,0), (0,2), (1,0), (1,2): two values on the corners of a rectangle
DenseRegion == {0, 2, 4, 6}

SlotCells == {3, 9, 11, 14}

\* SolvedGrid with up to MaxChanged cells of DenseRegion blanked or altered
DenseInputs ==
    {Override(SolvedGrid, f) :
        f \in {h \in UNION {[D -> 0..4] :
                            D \in {S \in SUBSET DenseRegion :
                                     Cardinality(S) <= MaxChanged}} :
                 \A i \in DOMAIN h : h[i] # SolvedGrid[i \div 4][i % 4]}}

\* the empty grid with up to MaxGivens given values on SlotCells
SparseInputs ==
    {Override(EmptyGrid, f) :
        f \in {h \in [SlotCells -> 0..4] :
                 Cardinality({i \in SlotCells : h[i] # 0}) <= MaxGivens}}

\* the two grids of order 1
TinyInputs == {Grid(<< <<v>> >>) : v \in 0..1}

Inputs ==
    {a \in DenseInputs \cup SparseInputs \cup TinyInputs : validate_array(a).ok}

-----------------------------------------------------------------------------
(* The solve harness: Sudoku(arr).solve(), then solve() of what it returned *)

NoFlight == [kind |-> "none", sudoku |-> 0]

NoCell == [op |-> "none", order |-> 0, raw |-> NoneRaw, arg |-> 0,
           err |-> "none", ret |-> 0, before |-> <<>>, c |-> <<>>]

NoProp == [cells |-> <<>>, clash |-> FALSE, ref |-> <<>>, refclash |-> FALSE]

\* a fresh frame of Sudoku.solve(self, callback); called counts the runs of
\* line 297 in this call
NewFrame(self, callback) ==
    [self |-> self, callback |-> callback, new_sudoku |-> 0, new_sudoku2 |-> 0,
     pc |-> "enter", i |-> 0, none |-> FALSE, cell_idx |-> 0,
     possibilities |-> <<>>, k |-> 1, called |-> 0]

Top == stack[Len(stack)]

SetTop(f) == [stack EXCEPT ![Len(stack)] = f]

Pop(s) == SubSeq(s, 1, Len(s) - 1)

ETop == estack[Len(estack)]

\* Sudoku.__init__ (lines 239-240)
Init ==
    /\ arr \in Inputs
    /\ heap = <<cells_from_arr(arr, validate_array(arr).sudoku_order)>>
    /\ stack = <<>>
    /\ estack = <<>>
    /\ flight = NoFlight
    /\ results = <<>>
    /\ mode = "solve"
    /\ cell = NoCell
    /\ prop = NoProp
    /\ calls = <<>>

Idle == mode = "solve" /\ stack = <<>> /\ flight = NoFlight

Running == mode = "solve" /\ stack # <<>> /\ flight = NoFlight

\* sudoku.solve() of line 358
MainSolve ==
    /\ Idle
    /\ results = <<>>
    /\ stack' = <<NewFrame(1, FALSE)>>
    /\ UNCHANGED <<arr, heap, estack, flight, results, mode, cell, prop, calls>>

\* solve() called again on the state the first call returned
MainResolve ==
    /\ Idle
    /\ Len(results) = 1
    /\ results[1].kind = "return"
    /\ stack' = <<NewFrame(results[1].sudoku, FALSE)>>
    /\ UNCHANGED <<arr, heap, estack, flight, results, mode, cell, prop, calls>>

\* the top-level caller receives the returned state or the ClashException
MainCollect ==
    /\ mode = "solve"
    /\ stack = <<>>
    /\ flight # NoFlight
    /\ results' = Append(results, flight)
    /\ flight' = NoFlight
    /\ UNCHANGED <<arr, heap, stack, estack, mode, cell, prop, calls>>

\* line 293: new_sudoku = copy.deepcopy(self)
SolveEnter ==
    /\ Running
    /\ Top.pc = "enter"
    /\ LET cp == DeepCopy(heap, Top.self)
       IN  /\ heap' = cp.heap
           /\ stack' = SetTop([Top EXCEPT !.new_sudoku = cp.id, !.pc = "easy"])
    /\ UNCHANGED <<arr, estack, flight, results, mode, cell, prop, calls>>

\* lines 317-318: _easy_step returns None at once on a solved state
EasySolved ==
    /\ Running
    /\ Top.pc = "easy"
    /\ IsSolved(heap[Top.new_sudoku])
    /\ stack' = SetTop([Top EXCEPT !.none = TRUE, !.pc = "after"])
    /\ UNCHANGED <<arr, heap, estack, flight, results, mode, cell, prop, calls>>

\* lines 317, 320: not solved, the propagation pass starts
EasyBegin ==
    /\ Running
    /\ Top.pc = "easy"
    /\ ~IsSolved(heap[Top.new_sudoku])
    /\ stack' = SetTop([Top EXCEPT !.i = 0, !.pc = "loop"])
    /\ UNCHANGED <<arr, heap, estack, flight, results, mode, cell, prop, calls>>

\* a fresh frame of Sudoku.eliminate(cell) (line 268: value = cell.value)
NewEFrame(sudoku, c, cells) ==
    [sudoku |-> sudoku, cell |-> c, value |-> CellValue(cells[c]), idx |-> 0]

\* lines 320-322, a determined cell: self.eliminate(cell)
EasyLoopCall ==
    /\ Running
    /\ Top.pc = "loop"
    /\ estack = <<>>
    /\ Top.i < Len0(heap[Top.new_sudoku])
    /\ CellValue(heap[Top.new_sudoku][Top.i]) # 0
    /\ estack' = <<NewEFrame(Top.new_sudoku, Top.i, heap[Top.new_sudoku])>>
    /\ stack' = SetTop([Top EXCEPT !.i = @ + 1])
    /\ UNCHANGED <<arr, heap, flight, results, mode, cell, prop, calls>>

\* lines 320-321, a cell without a value
EasyLoopSkip ==
    /\ Running
    /\ Top.pc = "loop"
    /\ estack = <<>>
    /\ Top.i < Len0(heap[Top.new_sudoku])
    /\ CellValue(heap[Top.new_sudoku][Top.i]) = 0
    /\ stack' = SetTop([Top EXCEPT !.i = @ + 1])
    /\ UNCHANGED <<arr, heap, estack, flight, results, mode, cell, prop, calls>>

\* lines 324-332: the pass is over; choose the branch cell unless solved
EasySelect ==
    /\ Running
    /\ Top.pc = "loop"
    /\ estack = <<>>
    /\ Top.i = Len0(heap[Top.new_sudoku])
    /\ LET cells == heap[Top.new_sudoku]
       IN  IF IsSolved(cells)
           THEN stack' = SetTop([Top EXCEPT !.none = TRUE, !.pc = "after"])
           ELSE stack' = SetTop([Top EXCEPT
                    !.none = FALSE, !.pc = "after",
                    !.cell_idx = MinCell(cells),
                    !.possibilities = cells[MinCell(cells)].possibilities])
    /\ UNCHANGED <<arr, heap, estack, flight, results, mode, cell, prop, calls>>

-----------------------------------------------------------------------------
(* Sudoku.eliminate, one visited cell (one Cell.eliminate call) per step *)

InCascade == mode = "solve" /\ estack # <<>> /\ flight = NoFlight

ECells == heap[ETop.sudoku]

\* lines 272-274: other_cell is not cell itself and shares a unit with it
IsPeer(cells, c, j) == ~CellEq(cells[c], cells[j]) /\ CellMatches(cells[c], cells[j])

\* the loop of line 271 from position idx on: the index of the next cell
\* that is not skipped by lines 272-274, or len(self.cells) if there is none
NextPeer(cells, c, idx) ==
    LET rest == {j \in idx..(Len0(cells) - 1) : IsPeer(cells, c, j)}
    IN  IF rest = {} THEN Len0(cells)
        ELSE CHOOSE j \in rest : \A m \in rest : j <= m

\* the cell the running eliminate call visits next
EPeer == NextPeer(ECells, ETop.cell, ETop.idx)

\* line 276 gone wrong: the cascade never recurses
NeverNewlySet(newly_set) == FALSE

\* line 276: if newly_set
NewlySet(newly_set) == newly_set # 0

\* lines 271-277: other_cell.eliminate(value) returns; recurse if newly set
ElimPeer ==
    /\ InCascade
    /\ ETop.value # 0
    /\ LET j == EPeer
           r == CellEliminate(ECells[j], ETop.value)
           cells2 == [ECells EXCEPT ![j] = r.c]
           cont == [estack EXCEPT ![Len(estack)].idx = j + 1]
       IN  /\ j < Len0(ECells)
           /\ ~r.clash
           /\ heap' = [heap EXCEPT ![ETop.sudoku] = cells2]
           /\ estack' = IF NewlySet(r.ret)
                        THEN Append(cont, NewEFrame(ETop.sudoku, j, cells2))
                        ELSE cont
    /\ UNCHANGED <<arr, stack, flight, results, mode, cell, prop, calls>>

\* line 275 raises ClashException (line 183): nothing in eliminate, _easy_step
\* or this solve call (line 294 is outside the try) catches it
ElimClash ==
    /\ InCascade
    /\ ETop.value # 0
    /\ LET j == EPeer
       IN  /\ j < Len0(ECells)
           /\ CellEliminate(ECells[j], ETop.value).clash
    /\ estack' = <<>>
    /\ stack' = Pop(stack)
    /\ flight' = [kind |-> "clash", sudoku |-> ETop.sudoku]
    /\ UNCHANGED <<arr, heap, results, mode, cell, prop, calls>>

\* lines 269-270, or the loop of line 271 is over: eliminate returns
ElimReturn ==
    /\ InCascade
    /\ ETop.value = 0 \/ EPeer = Len0(ECells)
    /\ estack' = Pop(estack)
    /\ UNCHANGED <<arr, heap, stack, flight, results, mode, cell, prop, calls>>

-----------------------------------------------------------------------------
(* Sudoku.solve after _easy_step *)

\* lines 296-297: if callback: callback(new_sudoku.progress)
SolveCallback ==
    /\ Running
    /\ estack = <<>>
    /\ Top.pc = "after"
    /\ Top.callback
    /\ Top.called = 0
    /\ calls' = Append(calls, Progress(heap[Top.new_sudoku]))
    /\ stack' = SetTop([Top EXCEPT !.called = 1])
    /\ UNCHANGED <<arr, heap, estack, flight, results, mode, cell, prop>>

\* line 299 is reached once lines 296-297 are done
PastCallback(f) == f.callback => f.called = 1

\* lines 299-301: solved, return new_sudoku
SolveReturn ==
    /\ Running
    /\ estack = <<>>
    /\ Top.pc = "after"
    /\ PastCallback(Top)
    /\ Top.none
    /\ flight' = [kind |-> "return", sudoku |-> Top.new_sudoku]
    /\ stack' = Pop(stack)
    /\ UNCHANGED <<arr, heap, estack, results, mode, cell, prop, calls>>

\* lines 303-304: possibilities = list(possibilities)
SolveUnpack ==
    /\ Running
    /\ estack = <<>>
    /\ Top.pc = "after"
    /\ PastCallback(Top)
    /\ ~Top.none
    /\ stack' = SetTop([Top EXCEPT !.k = 1, !.pc = "branch"])
    /\ UNCHANGED <<arr, heap, estack, flight, results, mode, cell, prop, calls>>

\* lines 306-307: new_sudoku2 = copy.deepcopy(new_sudoku)
SolveCopy ==
    /\ Running
    /\ Top.pc = "branch"
    /\ Top.k <= Len(Top.possibilities)
    /\ LET cp == DeepCopy(heap, Top.new_sudoku)
       IN  /\ heap' = cp.heap
           /\ stack' = SetTop([Top EXCEPT !.new_sudoku2 = cp.id, !.pc = "assign"])
    /\ UNCHANGED <<arr, estack, flight, results, mode, cell, prop, calls>>

\* line 310 gone wrong: return new_sudoku2, without solving it
SolveAssignNoRecurse ==
    /\ Running
    /\ Top.pc = "assign"
    /\ LET id == Top.new_sudoku2
           set == CellSetValue(heap[id][Top.cell_idx], Top.possibilities[Top.k])
       IN  /\ heap' = [heap EXCEPT ![id][Top.cell_idx] = set.c]
           /\ stack' = Pop(stack)
           /\ flight' = [kind |-> IF set.clash THEN "clash" ELSE "return",
                         sudoku |-> id]
    /\ UNCHANGED <<arr, estack, results, mode, cell, prop, calls>>

\* lines 308-310: assign the possibility (outside the try), then call solve
\* on the copy
SolveAssign ==
    /\ Running
    /\ Top.pc = "assign"
    /\ LET id == Top.new_sudoku2
           set == CellSetValue(heap[id][Top.cell_idx], Top.possibilities[Top.k])
           h2 == [heap EXCEPT ![id][Top.cell_idx] = set.c]
       IN  /\ heap' = h2
           /\ IF set.clash
              THEN /\ stack' = Pop(stack)
                   /\ flight' = [kind |-> "clash", sudoku |-> id]
              ELSE /\ stack' = Append(SetTop([Top EXCEPT !.pc = "call"]),
                                      NewFrame(id, Top.callback))
                   /\ flight' = flight
    /\ UNCHANGED <<arr, estack, results, mode, cell, prop, calls>>

\* line 314: every possibility was tried
SolveExhausted ==
    /\ Running
    /\ Top.pc = "branch"
    /\ Top.k > Len(Top.possibilities)
    /\ stack' = Pop(stack)
    /\ flight' = [kind |-> "clash", sudoku |-> Top.new_sudoku]
    /\ UNCHANGED <<arr, heap, estack, results, mode, cell, prop, calls>>

\* lines 311-312 gone wrong: the ClashException of the child is not caught
SolveCatchRethrow ==
    /\ mode = "solve"
    /\ stack # <<>>
    /\ flight.kind = "clash"
    /\ Top.pc = "call"
    /\ stack' = Pop(stack)
    /\ UNCHANGED <<arr, heap, estack, flight, results, mode, cell, prop, calls>>

\* lines 311-312 gone wrong: the loop does not move on to the next candidate
SolveCatchSameAgain ==
    /\ mode = "solve"
    /\ stack # <<>>
    /\ flight.kind = "clash"
    /\ Top.pc = "call"
    /\ flight' = NoFlight
    /\ stack' = SetTop([Top EXCEPT !.pc = "branch"])
    /\ UNCHANGED <<arr, heap, estack, results, mode, cell, prop, calls>>

\* lines 311-312: except ClashException: continue
SolveCatch ==
    /\ mode = "solve"
    /\ stack # <<>>
    /\ flight.kind = "clash"
    /\ Top.pc = "call"
    /\ flight' = NoFlight
    /\ stack' = SetTop([Top EXCEPT !.k = @ + 1, !.pc = "branch"])
    /\ UNCHANGED <<arr, heap, estack, results, mode, cell, prop, calls>>

\* line 310 gone wrong: the result of the child is dropped and the loop goes on
SolvePassKeepTrying ==
    /\ mode = "solve"
    /\ stack # <<>>
    /\ flight.kind = "return"
    /\ Top.pc = "call"
    /\ flight' = NoFlight
    /\ stack' = SetTop([Top EXCEPT !.k = @ + 1, !.pc = "branch"])
    /\ UNCHANGED <<arr, heap, estack, results, mode, cell, prop, calls>>

\* line 310: return new_sudoku2.solve(callback)
SolvePass ==
    /\ mode = "solve"
    /\ stack # <<>>
    /\ flight.kind = "return"
    /\ Top.pc = "call"
    /\ stack' = Pop(stack)
    /\ UNCHANGED <<arr, heap, estack, flight, results, mode, cell, prop, calls>>

Next ==
    \/ MainSolve
    \/ MainResolve
    \/ MainCollect
    \/ SolveEnter
    \/ EasySolved
    \/ EasyBegin
    \/ EasyLoopCall
    \/ EasyLoopSkip
    \/ EasySelect
    \/ ElimPeer
    \/ ElimClash
    \/ ElimReturn
    \/ SolveReturn
    \/ SolveUnpack
    \/ SolveCopy
    \/ SolveAssign
    \/ SolveExhausted
    \/ SolveCatch
    \/ SolvePass

Spec == Init /\ [][Next]_vars

-----------------------------------------------------------------------------
(* Vocabulary of the properties, stated on grid positions, not on Cell *)

\* the value of the raw grid a at row-major index i
At(a, i) == a[i \div Len0(a)][i % Len0(a)]

Indices(a) == 0..(Len0(a) * Len0(a) - 1)

\* distinct positions i, j of a grid of side n share a row, a column or a block
Conflict(n, i, j) ==
    LET o == ISqrt(n)
    IN  /\ i # j
        /\ \/ i \div n = j \div n
           \/ i % n = j % n
           \/ /\ (i \div n) \div o = (j \div n) \div o
              /\ (i % n) \div o = (j % n) \div o

\* two conflicting cells carry the same given value
HasDuplicateGivens(a) ==
    \E i, j \in Indices(a) :
        Conflict(Len0(a), i, j) /\ At(a, i) # 0 /\ At(a, i) = At(a, j)

Side(cells) == ISqrt(Len0(cells))

Candidates(cells, i) == Range(cells[i].possibilities)

\* every cell has exactly one candidate
Determined(cells) == \A i \in DOMAIN cells : Len(cells[i].possibilities) = 1

\* no two conflicting cells hold the same value
NoRepeat(cells) ==
    \A i, j \in DOMAIN cells :
        Conflict(Side(cells), i, j) /\ Len(cells[i].possibilities) = 1
                                    /\ Len(cells[j].possibilities) = 1
            => cells[i].possibilities[1] # cells[j].possibilities[1]

\* all assignments of 1..n to the positions p..n*n of a grid of side n that
\* extend done (the values of positions 1..p-1) without a repeated value
RECURSIVE Fill(_, _)
Fill(n, done) ==
    IF Len(done) = n * n THEN {done}
    ELSE LET p == Len(done)
             free == {v \in 1..n :
                        \A q \in 0..(p - 1) : Conflict(n, q, p) => done[q + 1] # v}
         IN  UNION {Fill(n, Append(done, v)) : v \in free}

\* every valid completed grid of side 1 and of side 4
AllSolutions ==
    [n \in {1, 4} |-> {ZeroBased(a) : a \in Fill(n, <<>>)}]

\* the valid completions of a puzzle state: one candidate of every cell
Completions(cells) ==
    {a \in AllSolutions[Side(cells)] :
        \A i \in DOMAIN cells : a[i] \in Candidates(cells, i)}

\* the valid completions of a raw grid: all givens kept
GridCompletions(a) ==
    {s \in AllSolutions[Len0(a)] :
        \A i \in Indices(a) : At(a, i) # 0 => s[i] = At(a, i)}

Returned(k) == Len(results) >= k /\ results[k].kind = "return"

Clashed(k) == Len(results) >= k /\ results[k].kind = "clash"

\* the puzzle state the k-th top-level solve call returned
ResultCells(k) == heap[results[k].sudoku]

\* the first solve call branched at least twice or retried a sibling
Searched == Len(heap) >= 5

-----------------------------------------------------------------------------
(* C1: solve fails with ClashException, and returns no grid, for every     *)
(* input grid in which two conflicting cells carry the same given value,   *)
(* a grid without any empty cell included.                                 *)
C1_UnsolvableDetection ==
    (results # <<>> /\ HasDuplicateGivens(arr)) => Clashed(1)

(* C2: in every state solve returns, every cell has exactly one candidate  *)
(* and no two conflicting cells hold the same value.                       *)
C2_Soundness ==
    \A k \in DOMAIN results :
        Returned(k) => Determined(ResultCells(k)) /\ NoRepeat(ResultCells(k))

(* C3: when the input grid has a valid completion, solve returns a fully   *)
(* determined state; the top-level call raises ClashException only when    *)
(* there is none; and no step of the elimination cascade removes, from any *)
(* puzzle state, a candidate that occurs in a valid completion of it.      *)
C3_Outcome ==
    results # <<>> =>
        /\ GridCompletions(arr) # {} => Returned(1) /\ Determined(ResultCells(1))
        /\ Clashed(1) => GridCompletions(arr) = {}

C3_KeepsCompletions ==
    \A id \in DOMAIN heap :
        estack # <<>> /\ heap'[id] # heap[id] =>
            \A a \in Completions(heap[id]) :
                \A i \in DOMAIN a : a[i] \in Candidates(heap'[id], i)

C3_Completeness == []C3_Outcome /\ [][C3_KeepsCompletions]_vars

\* solve returned after a search that met a dead branch or a second guess
C3_Witness ==
    /\ Returned(1)
    /\ GridCompletions(arr) # {}
    /\ Searched
    /\ \E i \in Indices(arr) :
          At(arr, i) = 0 /\ Candidates(heap[2], i) # Candidates(heap[1], i)

(* C4: solve never changes the candidate sets of the state it is called   *)
(* on, up to and including the step on which it returns or raises; and the *)
(* post-propagation state new_sudoku stays as it is from the moment the    *)
(* branch cell is chosen, through every candidate tried from it.           *)
Frames == {stack[d] : d \in DOMAIN stack}

C4_CallerStateKept ==
    \A f \in Frames :
        \A i \in DOMAIN heap[f.self] :
            heap'[f.self][i].possibilities = heap[f.self][i].possibilities

C4_PostStateKept ==
    \A f \in Frames :
        f.pc \in {"after", "branch", "assign", "call"} =>
            \A i \in DOMAIN heap[f.new_sudoku] :
                heap'[f.new_sudoku][i].possibilities
                    = heap[f.new_sudoku][i].possibilities

C4_BranchIsolation == [][C4_CallerStateKept /\ C4_PostStateKept]_vars

\* a child call has clashed and its parent is about to try the next candidate
C4_Witness ==
    \E f \in Frames :
        /\ f.pc = "branch"
        /\ f.k > 1
        /\ f.k <= Len(f.possibilities)
        /\ heap[f.new_sudoku2] # heap[f.new_sudoku]

(* C6: in every step, every cell of every existing puzzle-state instance   *)
(* keeps a subset of the candidates it had before the step, also in the    *)
(* steps that end in ClashException.                                       *)
C6_Shrinks ==
    \A id \in DOMAIN heap :
        \A i \in DOMAIN heap[id] :
            Candidates(heap'[id], i) \subseteq Candidates(heap[id], i)

C6_Monotonicity == [][C6_Shrinks]_vars

\* candidates were removed from the top-level copy, then propagation clashed
C6_Witness ==
    /\ Clashed(1)
    /\ \E i \in DOMAIN heap[2] :
          /\ Candidates(heap[2], i) # Candidates(heap[1], i)
          /\ Candidates(heap[2], i) \subseteq Candidates(heap[1], i)
    /\ \E id \in DOMAIN heap : \E i \in DOMAIN heap[id] :
          Len(heap[id][i].possibilities) = 1 /\ At(arr, i) = 0

(* C7: when solve returns on the input grid, solving the returned state    *)
(* again returns a state with the same value in every cell.                *)
C7_Idempotence ==
    (Returned(1) /\ Len(results) = 2) =>
        /\ Returned(2)
        /\ \A i \in DOMAIN ResultCells(1) :
              CellValue(ResultCells(2)[i]) = CellValue(ResultCells(1)[i])

\* both calls are over and the first one had to search
C7_Witness == Returned(1) /\ Len(results) = 2 /\ Searched

(* C8: every call of Sudoku.eliminate terminates: every step of a cascade  *)
(* strictly lowers a natural-number measure of the work left (candidates   *)
(* left in the puzzle state, weighted, plus cells left to visit in every   *)
(* running call), so a cascade takes at most that many steps before it has *)
(* returned or raised; every recursive call inside it follows a removal    *)
(* that shrank the visited cell from two candidates to exactly one; and no *)
(* cell ever has fewer than one candidate.                                 *)
TotalCandidates(cells) ==
    LET RECURSIVE Sum(_)
        Sum(k) == IF k = 0 THEN 0
                  ELSE Len(cells[k - 1].possibilities) + Sum(k - 1)
    IN  Sum(Len0(cells))

\* cells the running eliminate calls of es have still to look at, plus one
\* per call for its return
RECURSIVE CallsLeft(_, _)
CallsLeft(es, n) ==
    IF es = <<>> THEN 0
    ELSE (n + 1 - Head(es).idx) + CallsLeft(Tail(es), n)

WorkLeft(es, cells) ==
    (Len0(cells) + 2) * TotalCandidates(cells) + CallsLeft(es, Len0(cells))

C8_WorkShrinks ==
    estack # <<>> =>
        /\ WorkLeft(estack', heap'[ETop.sudoku]) < WorkLeft(estack, heap[ETop.sudoku])
        /\ WorkLeft(estack', heap'[ETop.sudoku]) >= 0

C8_RecursionAfterShrink ==
    (estack # <<>> /\ Len(estack') > Len(estack)) =>
        LET id == ETop.sudoku
            j == EPeer
        IN  /\ Len(estack') = Len(estack) + 1
            /\ estack'[Len(estack')].cell = j
            /\ Len(heap[id][j].possibilities) = 2
            /\ Len(heap'[id][j].possibilities) = 1
            /\ Candidates(heap'[id], j) \subseteq Candidates(heap[id], j)

C8_NeverEmpty ==
    \A id \in DOMAIN heap :
        \A i \in DOMAIN heap[id] : Len(heap[id][i].possibilities) >= 1

C8_CascadeTerminates ==
    /\ [][C8_WorkShrinks /\ C8_RecursionAfterShrink]_vars
    /\ []C8_NeverEmpty

\* a cascade three calls deep
C8_Witness == Len(estack) >= 3

(* C9: when the propagation pass of _easy_step ends without                *)
(* ClashException, no cell conflicting with a determined cell keeps that   *)
(* cell's value as a candidate, so a second pass would change nothing and  *)
(* would not clash.                                                        *)
FixedPoint(cells) ==
    \A c, o \in DOMAIN cells :
        (Conflict(Side(cells), c, o) /\ Len(cells[c].possibilities) = 1)
            => cells[c].possibilities[1] \notin Candidates(cells, o)

\* the frame has finished the loop of lines 320-322
PassOver(f) == f.pc = "after" /\ f.i = Len0(heap[f.new_sudoku])

C9_SinglePassFixedPoint ==
    \A f \in Frames : PassOver(f) => FixedPoint(heap[f.new_sudoku])

\* a pass is over, it determined a cell that was not given, and cells with
\* several candidates remain
C9_Witness ==
    \E f \in Frames :
        /\ PassOver(f)
        /\ ~f.none
        /\ \E i \in Indices(arr) :
              At(arr, i) = 0 /\ Len(heap[f.new_sudoku][i].possibilities) = 1

-----------------------------------------------------------------------------
(* The Cell harness: one Cell is constructed, then eliminate and the value *)
(* setter are called on it with any arguments                               *)

CellOrders == 1..2

Texts == { <<>>, <<"a">>, <<"3">>, <<" ", "2">>, <<"-", "1">>, <<"1", "2">>,
           <<"x", "1">>, <<"1", ".", "5">> }

\* what a caller may pass as value: integers around the legal range, None
\* (the default of the parameter), and texts
RawValues(order) ==
    {IntRaw(n) : n \in (0 - 1)..(order * order + RawSlack)}
        \cup {NoneRaw} \cup {StrRaw(t) : t \in Texts}

InitCell ==
    /\ arr = <<>>
    /\ heap = <<>>
    /\ stack = <<>>
    /\ estack = <<>>
    /\ flight = NoFlight
    /\ results = <<>>
    /\ mode = "cell"
    /\ cell = NoCell
    /\ prop = NoProp
    /\ calls = <<>>

\* Cell(row, col, sudoku_order, value)
CellNew ==
    /\ mode = "cell"
    /\ cell.op = "none"
    /\ \E order \in CellOrders :
          \E raw \in RawValues(order), row \in {0, order * order - 1} :
              LET r == CellInit(row, 0, order, raw)
              IN  cell' = [op |-> "init", order |-> order, raw |-> raw, arg |-> 0,
                           err |-> r.err, ret |-> 0, before |-> <<>>,
                           c |-> IF r.err = "none" THEN r.c ELSE <<>>]
    /\ UNCHANGED <<arr, heap, stack, estack, flight, results, mode, prop, calls>>

\* a constructed cell exists
HasCell == mode = "cell" /\ cell.op # "none" /\ cell.c # <<>>

\* cell.eliminate(v)
CellElim ==
    /\ HasCell
    /\ \E v \in 0..(cell.order * cell.order + 1) :
          LET r == CellEliminate(cell.c, v)
          IN  cell' = [cell EXCEPT !.op = "eliminate", !.arg = v,
                                   !.before = cell.c.possibilities, !.c = r.c,
                                   !.err = IF r.clash THEN "Clash" ELSE "none",
                                   !.ret = r.ret]
    /\ UNCHANGED <<arr, heap, stack, estack, flight, results, mode, prop, calls>>

\* cell.value = v
CellSet ==
    /\ HasCell
    /\ \E v \in 0..(cell.order * cell.order + 1) :
          LET r == CellSetValue(cell.c, v)
          IN  cell' = [cell EXCEPT !.op = "set", !.arg = v,
                                   !.before = cell.c.possibilities, !.c = r.c,
                                   !.err = IF r.clash THEN "Clash" ELSE "none",
                                   !.ret = 0]
    /\ UNCHANGED <<arr, heap, stack, estack, flight, results, mode, prop, calls>>

NextCell ==
    \/ CellNew
    \/ CellElim
    \/ CellSet

SpecCell == InitCell /\ [][NextCell]_vars

(* C5: a new cell made from an integer in [1, order^2] has exactly that    *)
(* value as its candidates; made from 0, None, a non-numeric text or an    *)
(* integer outside [1, order^2] it has the full range 1..order^2, and the  *)
(* constructor raises no error.                                            *)
C5_CellInitialisation ==
    cell.op = "init" =>
        LET inRange == cell.raw.t = "int"
                          /\ cell.raw.n \in 1..(cell.order * cell.order)
            unknown == \/ cell.raw.t = "int" /\ ~inRange
                       \/ cell.raw.t = "none"
                       \/ cell.raw.t = "str" /\ PyInt(cell.raw).err = "ValueError"
        IN  /\ inRange =>
                cell.err = "none" /\ cell.c.possibilities = <<cell.raw.n>>
            /\ unknown =>
                /\ cell.err = "none"
                /\ cell.c.possibilities = FullRange(cell.order)

-----------------------------------------------------------------------------
(* The order harness: the eliminations of Sudoku.eliminate, made from the  *)
(* determined cells of one puzzle state in any order whatever              *)

\* Sudoku.eliminate(cell) run to its end from loop position idx, in the
\* order of the code: [clash, cells]
RECURSIVE EliminateRun(_, _, _, _)
EliminateRun(cells, c, value, idx) ==
    LET j == NextPeer(cells, c, idx)
    IN  IF value = 0 \/ j = Len0(cells) THEN [clash |-> FALSE, cells |-> cells]
        ELSE LET r == CellEliminate(cells[j], value)
                 cells2 == [cells EXCEPT ![j] = r.c]
             IN  IF r.clash THEN [clash |-> TRUE, cells |-> cells]
                 ELSE LET sub == IF NewlySet(r.ret)
                                 THEN EliminateRun(cells2, j, CellValue(cells2[j]), 0)
                                 ELSE [clash |-> FALSE, cells |-> cells2]
                      IN  IF sub.clash THEN sub
                          ELSE EliminateRun(sub.cells, c, value, j + 1)

\* the loop of lines 320-322 run to its end from position i: [clash, cells]
RECURSIVE PassRun(_, _)
PassRun(cells, i) ==
    IF i = Len0(cells) THEN [clash |-> FALSE, cells |-> cells]
    ELSE IF CellValue(cells[i]) = 0 THEN PassRun(cells, i + 1)
    ELSE LET r == EliminateRun(cells, i, CellValue(cells[i]), 0)
         IN  IF r.clash THEN r ELSE PassRun(r.cells, i + 1)

\* starts from the dense grids only: under free interleaving the sparse grids
\* have too many intermediate states to enumerate
InitOrder ==
    /\ arr \in {a \in DenseInputs \cup TinyInputs : validate_array(a).ok}
    /\ heap = <<>>
    /\ stack = <<>>
    /\ estack = <<>>
    /\ flight = NoFlight
    /\ results = <<>>
    /\ mode = "order"
    /\ cell = NoCell
    /\ LET cells == cells_from_arr(arr, validate_array(arr).sudoku_order)
           run == PassRun(cells, 0)
       IN  prop = [cells |-> cells, clash |-> FALSE,
                   ref |-> run.cells, refclash |-> run.clash]
    /\ calls = <<>>

\* the calls other_cell.eliminate(value) of line 275 that some order of
\* visiting makes next: c has a value and o is another cell sharing a unit
OrderPairs ==
    {p \in (DOMAIN prop.cells) \X (DOMAIN prop.cells) :
        /\ CellValue(prop.cells[p[1]]) # 0
        /\ IsPeer(prop.cells, p[1], p[2])}

\* a call of line 275 that removes a candidate
OrderEliminate ==
    /\ mode = "order"
    /\ ~prop.clash
    /\ \E p \in OrderPairs :
          LET r == CellEliminate(prop.cells[p[2]], CellValue(prop.cells[p[1]]))
          IN  /\ ~r.clash
              /\ r.c # prop.cells[p[2]]
              /\ prop' = [prop EXCEPT !.cells[p[2]] = r.c]
    /\ UNCHANGED <<arr, heap, stack, estack, flight, results, mode, cell, calls>>

\* a call of line 275 that raises ClashException
OrderClash ==
    /\ mode = "order"
    /\ ~prop.clash
    /\ \E p \in OrderPairs :
          CellEliminate(prop.cells[p[2]], CellValue(prop.cells[p[1]])).clash
    /\ prop' = [prop EXCEPT !.clash = TRUE]
    /\ UNCHANGED <<arr, heap, stack, estack, flight, results, mode, cell, calls>>

NextOrder ==
    \/ OrderEliminate
    \/ OrderClash

SpecOrder == InitOrder /\ [][NextOrder]_vars

\* no order of visiting has a call left that would do anything
OrderExhausted ==
    \A p \in OrderPairs :
        LET r == CellEliminate(prop.cells[p[2]], CellValue(prop.cells[p[1]]))
        IN  ~r.clash /\ r.c = prop.cells[p[2]]

(* C10: from one puzzle state, cascading the eliminations exhaustively in  *)
(* any order ends as the order of the code does: in Clash if that one      *)
(* clashes, and otherwise without Clash in the same candidates for every   *)
(* cell.                                                                   *)
C10_OrderIndependence ==
    (mode = "order" /\ (prop.clash \/ OrderExhausted)) =>
        /\ prop.clash = prop.refclash
        /\ ~prop.clash =>
              \A i \in DOMAIN prop.cells :
                  Candidates(prop.cells, i) = Candidates(prop.ref, i)

\* the candidates the givens alone leave to position i of the raw grid a
DirectCandidates(a, i) ==
    {v \in 1..Len0(a) :
        \A j \in Indices(a) : Conflict(Len0(a), i, j) => At(a, j) # v}

\* an exhaustive cascade ended without Clash and determined an empty cell
\* that the givens alone do not determine
C10_Witness ==
    /\ mode = "order"
    /\ OrderExhausted
    /\ ~prop.clash
    /\ \E i \in Indices(arr) :
          /\ At(arr, i) = 0
          /\ Cardinality(DirectCandidates(arr, i)) > 1
          /\ Len(prop.cells[i].possibilities) = 1

-----------------------------------------------------------------------------
(* C11: whenever _easy_step has finished its pass on a state that is not   *)
(* solved, the cell it returns has more than one candidate, no cell with   *)
(* more than one candidate has fewer, and among the cells with that        *)
(* smallest count it has the lowest row-major index.                       *)
C11_BranchCellSelection ==
    \A f \in Frames :
        (PassOver(f) /\ ~Determined(heap[f.new_sudoku])) =>
            LET cells == heap[f.new_sudoku]
                n == Len(cells[f.cell_idx].possibilities)
            IN  /\ ~f.none
                /\ f.cell_idx \in DOMAIN cells
                /\ n > 1
                /\ f.possibilities = cells[f.cell_idx].possibilities
                /\ \A j \in DOMAIN cells :
                      LET m == Len(cells[j].possibilities)
                      IN  /\ m > 1 => n <= m
                          /\ m = n => f.cell_idx <= j

\* the cell returned comes after a cell with more candidates and before a
\* cell with as many
C11_Witness ==
    \E f \in Frames :
        /\ PassOver(f)
        /\ ~f.none
        /\ LET cells == heap[f.new_sudoku]
               n == Len(cells[f.cell_idx].possibilities)
           IN  /\ \E j \in DOMAIN cells :
                     j < f.cell_idx /\ Len(cells[j].possibilities) > n
               /\ \E j \in DOMAIN cells :
                     j > f.cell_idx /\ Len(cells[j].possibilities) = n

(* C12: in every solve call that branches, the candidates of the branch    *)
(* cell are tried in strictly ascending order: the list is ascending, the  *)
(* value assigned is the k-th of it, and k moves on by one, only when the  *)
(* child call of the k-th has raised ClashException; the call hands on the *)
(* result of the first child that returns, and once a child has returned   *)
(* nothing more is copied, assigned or called on the way out.              *)
C12_AscendingList ==
    \A f \in Frames :
        f.pc \in {"branch", "assign", "call"} =>
            \A a, b \in DOMAIN f.possibilities :
                a < b => f.possibilities[a] < f.possibilities[b]

\* the step of line 308 gives the branch cell of the copy the k-th candidate
C12_AssignsKth ==
    (stack # <<>> /\ flight = NoFlight /\ Top.pc = "assign") =>
        heap'[Top.new_sudoku2][Top.cell_idx].possibilities
            = <<Top.possibilities[Top.k]>>

\* a call moves to its next candidate only after the child of this one clashed
C12_NextOnlyAfterClash ==
    \A d \in DOMAIN stack \cap DOMAIN stack' :
        (stack'[d].self = stack[d].self /\ stack'[d].k # stack[d].k) =>
            /\ stack[d].pc = "call"
            /\ d = Len(stack)
            /\ flight.kind = "clash"
            /\ stack'[d].k = stack[d].k + 1

\* a returned state goes straight up, unchanged, through every waiting call
C12_ReturnGoesUp ==
    (stack # <<>> /\ flight.kind = "return") =>
        /\ Top.pc = "call"
        /\ flight.sudoku >= Top.new_sudoku2
        /\ CellValue(heap[flight.sudoku][Top.cell_idx]) = Top.possibilities[Top.k]
        /\ stack' = Pop(stack)
        /\ flight' = flight
        /\ heap' = heap

C12_FirstSuccessWins ==
    /\ []C12_AscendingList
    /\ [][C12_AssignsKth /\ C12_NextOnlyAfterClash /\ C12_ReturnGoesUp]_vars

\* a state is on its way up through a call whose earlier candidate failed
\* and through a call that has a candidate left untried
C12_Witness ==
    /\ stack # <<>>
    /\ flight.kind = "return"
    /\ \E f \in Frames : f.pc = "call" /\ f.k >= 2
    /\ \E f \in Frames : f.pc = "call" /\ f.k < Len(f.possibilities)

(* C13: a solve call raises ClashException exactly when its own           *)
(* propagation pass clashes or when it has gone through all candidates of  *)
(* its branch cell; a ClashException coming out of a child call is always  *)
(* caught by the waiting call, which moves to its next candidate, and a    *)
(* clash of the pass is caught by nothing inside the call it happens in.   *)
PassClashes ==
    /\ estack # <<>>
    /\ flight = NoFlight
    /\ ETop.value # 0
    /\ EPeer < Len0(ECells)
    /\ CellEliminate(ECells[EPeer], ETop.value).clash

AllTried ==
    /\ stack # <<>>
    /\ estack = <<>>
    /\ flight = NoFlight
    /\ Top.pc = "branch"
    /\ Top.k = Len(Top.possibilities) + 1

\* a ClashException starts in this step
C13_RaisesExactlyWhen ==
    /\ (flight.kind # "clash" /\ flight'.kind = "clash") =>
            (PassClashes /\ Top.pc = "loop") \/ AllTried
    /\ (PassClashes \/ AllTried) =>
            /\ flight'.kind = "clash"
            /\ stack' = Pop(stack)
            /\ estack' = <<>>

\* a ClashException arrives at a waiting call
C13_CaughtAtRetry ==
    (stack # <<>> /\ flight.kind = "clash") =>
        /\ Top.pc = "call"
        /\ flight' = NoFlight
        /\ Len(stack') = Len(stack)
        /\ stack'[Len(stack)].pc = "branch"
        /\ stack'[Len(stack)].k = Top.k + 1

C13_ClashRecovery == [][C13_RaisesExactlyWhen /\ C13_CaughtAtRetry]_vars

\* every candidate of the top-level call was tried, the child call of each
\* raised and was caught, and the call has raised in its turn
C13_Witness ==
    /\ stack = <<>>
    /\ flight.kind = "clash"
    /\ FixedPoint(heap[flight.sudoku])
    /\ Len(heap) >= flight.sudoku + 2

-----------------------------------------------------------------------------
(* The callback harness: sudoku.solve(), then sudoku.solve(callback) on    *)
(* the same Sudoku object                                                  *)

\* solve(callback) called on the Sudoku that solve() was called on before
MainCallback ==
    /\ Idle
    /\ Len(results) = 1
    /\ stack' = <<NewFrame(1, TRUE)>>
    /\ UNCHANGED <<arr, heap, estack, flight, results, mode, cell, prop, calls>>

NextCallback ==
    \/ MainSolve
    \/ MainCallback
    \/ MainCollect
    \/ SolveEnter
    \/ EasySolved
    \/ EasyBegin
    \/ EasyLoopCall
    \/ EasyLoopSkip
    \/ EasySelect
    \/ ElimPeer
    \/ ElimClash
    \/ ElimReturn
    \/ SolveCallback
    \/ SolveReturn
    \/ SolveUnpack
    \/ SolveCopy
    \/ SolveAssign
    \/ SolveExhausted
    \/ SolveCatch
    \/ SolvePass

SpecCallback == Init /\ [][NextCallback]_vars

(* C14: with a callback given, every invocation of solve, the top-level    *)
(* one and every recursive one, those that end in ClashException included, *)
(* calls it exactly once, with the number of determined cells of its state *)
(* over the number of all cells, a value in [0, 1]; and the call returns   *)
(* the same grid, or raises Clash, as the call without a callback did.     *)
\* an invocation that ends in this step has called the callback once
C14_OncePerInvocation ==
    (stack # <<>> /\ Top.callback /\ Len(stack') < Len(stack)) =>
        Top.called = 1

\* a call of the callback gets the fraction of the state of the calling
\* invocation, and an invocation calls at most once
C14_CallsWithFraction ==
    calls' # calls =>
        /\ stack # <<>>
        /\ Top.callback
        /\ Top.called = 0
        /\ stack'[Len(stack)].called = 1
        /\ LET cells == heap[Top.new_sudoku]
               done == {i \in DOMAIN cells : Len(cells[i].possibilities) = 1}
           IN  calls' = Append(calls, <<Cardinality(done), Cardinality(DOMAIN cells)>>)

C14_InUnitInterval ==
    \A n \in DOMAIN calls :
        calls[n][2] > 0 /\ calls[n][1] >= 0 /\ calls[n][1] <= calls[n][2]

C14_SameOutcome ==
    Len(results) = 2 =>
        /\ results[2].kind = results[1].kind
        /\ Returned(1) =>
              \A i \in DOMAIN ResultCells(1) :
                  ResultCells(2)[i].possibilities = ResultCells(1)[i].possibilities

C14_ProgressCallback ==
    /\ [][C14_OncePerInvocation /\ C14_CallsWithFraction]_vars
    /\ [](C14_InUnitInterval /\ C14_SameOutcome)

-----------------------------------------------------------------------------
C16_NeverEmpty ==
    /\ \A id \in DOMAIN heap :
          \A i \in DOMAIN heap[id] : Candidates(heap[id], i) # {}
    /\ flight.kind = "clash" =>
          \A i \in DOMAIN heap[flight.sudoku] : heap[flight.sudoku][i].possibilities # <<>>

\* propagation has just raised ClashException on the copy of a child call,
\* after it had determined a cell that was not given
C16_Witness ==
    /\ stack # <<>>
    /\ flight.kind = "clash"
    /\ ~FixedPoint(heap[flight.sudoku])
    /\ \E i \in Indices(arr) :
          /\ At(arr, i) = 0
          /\ i # Top.cell_idx
          /\ Len(heap[flight.sudoku][i].possibilities) = 1
          /\ Len(heap[Top.new_sudoku][i].possibilities) > 1

(* C17: in every solve call, the value about to be assigned to the branch  *)
(* cell of the fresh copy is a candidate of that cell, so the setter of    *)
(* line 308 never raises ClashException: the step after it is always the   *)
(* child call.                                                             *)
C17_ValueIsCandidate ==
    \A f \in Frames :
        f.pc = "assign" =>
            /\ f.k \in DOMAIN f.possibilities
            /\ f.possibilities[f.k] \in Candidates(heap[f.new_sudoku2], f.cell_idx)

C17_SetterRaisesNothing ==
    (stack # <<>> /\ flight = NoFlight /\ Top.pc = "assign") =>
        /\ flight' = NoFlight
        /\ Len(stack') = Len(stack) + 1
        /\ stack'[Len(stack)].pc = "call"
        /\ stack'[Len(stack')].self = Top.new_sudoku2

C17_AssignmentCannotClash ==
    []C17_ValueIsCandidate /\ [][C17_SetterRaisesNothing]_vars

\* a later candidate is about to be assigned, on a fresh copy, after the
\* child call of an earlier one has failed
C17_Witness ==
    \E f \in Frames :
        /\ f.pc = "assign"
        /\ f.k >= 2
        /\ Len(heap[f.new_sudoku2][f.cell_idx].possibilities) >= 2

(* C18: no recursive solve call on a branch copy starts in a solved state, *)
(* so its propagation pass always runs on the assigned candidate; and for  *)
(* every input grid with an undetermined cell, a state solve returns is a  *)
(* valid completion: all cells determined, no repeated value in any row,   *)
(* column or block, every given value kept.                                *)
C18_ChildNotSolved ==
    \A d \in DOMAIN stack :
        (d >= 2 /\ stack[d].pc \in {"enter", "easy"}) =>
            /\ ~IsSolved(heap[stack[d].self])
            /\ stack[d].pc = "easy" => ~IsSolved(heap[stack[d].new_sudoku])

\* the pass of a child call is entered, never skipped by lines 317-318
C18_ChildRunsPass ==
    (Len(stack) >= 2 /\ flight = NoFlight /\ Top.pc = "easy") =>
        stack'[Len(stack)].pc = "loop"

C18_ReturnedIsCompletion ==
    (Returned(1) /\ ~Determined(heap[1])) =>
        /\ Determined(ResultCells(1))
        /\ NoRepeat(ResultCells(1))
        /\ [i \in DOMAIN ResultCells(1) |-> CellValue(ResultCells(1)[i])]
              \in GridCompletions(arr)

C18_GuessesAreChecked ==
    /\ [](C18_ChildNotSolved /\ C18_ReturnedIsCompletion)
    /\ [][C18_ChildRunsPass]_vars

\* the state returned is the copy of a child call, whose pass filled in
\* more than the guess
C18_Witness ==
    /\ Returned(1)
    /\ results[1].sudoku >= 4
    /\ \E i, j \in Indices(arr) :
          /\ i # j
          /\ Len(heap[2][i].possibilities) > 1
          /\ Len(heap[2][j].possibilities) > 1

(* C19: solve always returns or raises ClashException: every step of a     *)
(* running call strictly lowers a rank in a well-founded order (one        *)
(* natural number per nested call, compared from the outermost call on, a  *)
(* call that is over counting as greater than any number); every recursive *)
(* call starts from a state with fewer candidates in total than the state  *)
(* its parent was called on; and the depth of the recursion never exceeds  *)
(* the total candidate count of the state of the top-level call.           *)

\* what is left to do in the call of frame f itself: its stages in order,
\* enter, easy, the pass with its cascades, after, then branch, assign and
\* call for each candidate left; waiting tells a call whose child runs from
\* one whose child is over
FrameRank(f, h, es, waiting) ==
    LET n == Len0(h[f.self])
        left == Len(f.possibilities) + 1 - f.k
        base == 4 * (n + 1) + 4
    IN  CASE f.pc = "call" -> 4 * left + (IF waiting THEN 1 ELSE 0)
          [] f.pc = "assign" -> 4 * left + 2
          [] f.pc = "branch" -> 4 * left + 3
          [] f.pc = "after" -> base + (IF f.callback /\ f.called = 0 THEN 1 ELSE 0)
          [] f.pc = "loop" ->
                base + 2 + (n - f.i) * (n + 2) + WorkLeft(es, h[f.new_sudoku])
          [] f.pc = "easy" ->
                base + 3 + n * (n + 2) + WorkLeft(<<>>, h[f.new_sudoku])
          [] f.pc = "enter" ->
                base + 4 + n * (n + 2) + WorkLeft(<<>>, h[f.self])

SearchRank(st, h, es) ==
    [d \in DOMAIN st |-> FrameRank(st[d], h, es, d < Len(st))]

\* a is before b in the order: at the first place where they differ, a has
\* the smaller number, or a has a number and b has none
RankLess(a, b) ==
    \E p \in DOMAIN a :
        /\ \A q \in 1..(p - 1) : q \in DOMAIN b /\ a[q] = b[q]
        /\ p \in DOMAIN b => a[p] < b[p]

C19_RankShrinks ==
    (stack # <<>> /\ stack' # <<>>) =>
        /\ RankLess(SearchRank(stack', heap', estack'),
                    SearchRank(stack, heap, estack))
        /\ \A d \in DOMAIN stack' :
              SearchRank(stack', heap', estack')[d] >= 0

C19_ChildStartsSmaller ==
    \A d \in DOMAIN stack :
        d >= 2 =>
            TotalCandidates(heap[stack[d].self])
                < TotalCandidates(heap[stack[d - 1].self])

C19_DepthBounded ==
    stack # <<>> => Len(stack) <= TotalCandidates(heap[stack[1].self])

C19_SearchTerminates ==
    /\ [][C19_RankShrinks]_vars
    /\ [](C19_ChildStartsSmaller /\ C19_DepthBounded)

\* a call three deep runs a cascade
C19_Witness ==
    /\ Len(stack) >= 3
    /\ estack # <<>>
    /\ stack[1].self = 1

=============================================================================
